---- MODULE Spec2Model ----
(***************************************************************************)
(* FocalLoss and FocalLossTrainer of torcheeg/trainers/imbalance/focal.py. *)
(*                                                                         *)
(* Floating-point values are modelled as exact non-negative rationals      *)
(* extended with the IEEE values inf and nan (rounding is abstracted).     *)
(* Logits are integer multiples of ln 2, so that softmax is a power of 2   *)
(* and the cross-entropy is an integer multiple of ln 2; a loss value is a *)
(* rational in units of ln 2.                                              *)
(***************************************************************************)
EXTENDS Integers, Sequences, FiniteSets

(* ---------------------------- bounds ----------------------------------- *)
MaxClasses == 2      \* num_classes ranges over 1..MaxClasses
MaxListLen == 2      \* length of a class_frequency list
MaxFreq == 2         \* largest count in a class_frequency list
MaxLoaderLen == 3    \* number of (x, y) pairs a class_frequency loader yields
MaxDrwEpochs == 2    \* drw_epochs ranges over 0..MaxDrwEpochs
MaxEpoch == 2        \* the run trains epochs 0..MaxEpoch

(* ---------------------------- numbers ---------------------------------- *)
RECURSIVE GCD(_, _)
GCD(a, b) == IF b = 0 THEN a ELSE GCD(b, a % b)

Fin(n, d) == LET g == GCD(n, d) IN
             IF n = 0 THEN [k |-> "fin", n |-> 0, d |-> 1]
                      ELSE [k |-> "fin", n |-> n \div g, d |-> d \div g]
INF == [k |-> "inf", n |-> 1, d |-> 0]
NAN == [k |-> "nan", n |-> 0, d |-> 0]
FromInt(i) == Fin(i, 1)
IsFinite(a) == a.k = "fin"

\* a + b for non-negative floats
FAdd(a, b) == IF a.k = "nan" \/ b.k = "nan" THEN NAN
              ELSE IF a.k = "inf" \/ b.k = "inf" THEN INF
              ELSE Fin(a.n * b.d + b.n * a.d, a.d * b.d)

\* a - b for finite a >= b
FSub(a, b) == Fin(a.n * b.d - b.n * a.d, a.d * b.d)

\* a * b for non-negative floats
FMul(a, b) == IF a.k = "nan" \/ b.k = "nan" THEN NAN
              ELSE IF a.k = "inf" \/ b.k = "inf"
                   THEN (IF (a.k = "fin" /\ a.n = 0) \/ (b.k = "fin" /\ b.n = 0)
                         THEN NAN ELSE INF)
              ELSE Fin(a.n * b.n, a.d * b.d)

\* a / b for non-negative floats: x/0 = inf, 0/0 = nan, inf/inf = nan, x/inf = 0
FDiv(a, b) == IF a.k = "nan" \/ b.k = "nan" THEN NAN
              ELSE IF a.k = "inf" THEN (IF b.k = "inf" THEN NAN ELSE INF)
              ELSE IF b.k = "inf" THEN Fin(0, 1)
              ELSE IF b.n = 0 THEN (IF a.n = 0 THEN NAN ELSE INF)
              ELSE Fin(a.n * b.d, a.d * b.n)

\* a ** e for a finite a and an integer e >= 0 (x ** 0 = 1, also for x = 0)
RECURSIVE FPow(_, _)
FPow(a, e) == IF e = 0 THEN Fin(1, 1) ELSE FMul(a, FPow(a, e - 1))

RECURSIVE FSum(_)
FSum(s) == IF s = <<>> THEN Fin(0, 1) ELSE FAdd(Head(s), FSum(Tail(s)))

(* ---------------------------- tensors ---------------------------------- *)
None == [none |-> TRUE, data |-> <<>>]
Tensor(s) == [none |-> FALSE, data |-> s]

(* ---------------------------- FocalLoss --------------------------------- *)
\* FocalLoss.__init__: gamma, the weight buffer and the reduction are stored.
\* ref names the trainer attribute whose tensor the buffer refers to.
FocalLoss(gamma_, weight, ref) ==
    [gamma |-> gamma_, weight |-> weight, ref |-> ref, reduction |-> "mean"]

RECURSIVE Log2(_)
Log2(n) == IF n <= 1 THEN 0 ELSE 1 + Log2(n \div 2)

RECURSIVE SumPow2(_)
SumPow2(row) == IF row = <<>> THEN 0 ELSE 2 ^ Head(row) + SumPow2(Tail(row))

\* F.cross_entropy(input, target, reduction='none') for one sample, in units
\* of ln 2: -log softmax(row)[target]. No weight is passed.
CrossEntropy(row, target) == Log2(SumPow2(row)) - row[target + 1]

\* Per-sample focal loss: p = exp(-ce_loss); (1 - p) ** gamma * ce_loss
SampleLoss(unit, row, target) ==
    LET ce_loss == CrossEntropy(row, target)
        p == Fin(1, 2 ^ ce_loss)
    IN FMul(FPow(FSub(Fin(1, 1), p), unit.gamma), FromInt(ce_loss))

\* FocalLoss.forward
Forward(unit, input, target) ==
    LET loss == [i \in 1..Len(input) |-> SampleLoss(unit, input[i], target[i])]
    IN IF unit.reduction = "mean" THEN FDiv(FSum(loss), FromInt(Len(loss)))
       ELSE IF unit.reduction = "sum" THEN FSum(loss)
       ELSE loss

(* ---------------------------- constructor inputs ----------------------- *)
Rules == {"none", "reweight", "drw"}
RuleArgs == Rules \cup {"invalid"}
Gammas == {1, 2}
\* beta_reweight as numerator/denominator, in [0, 1)
Betas == {<<0, 1>>, <<1, 2>>, <<2, 3>>}

RECURSIVE SeqsUpTo(_, _)
SeqsUpTo(S, n) ==
    IF n = 0 THEN {<<>>}
    ELSE LET prev == SeqsUpTo(S, n - 1)
         IN prev \cup {Append(s, x) : s \in {t \in prev : Len(t) = n - 1}, x \in S}

\* labels a loader may yield for num_classes K: in range, and out of range on
\* either side (-1 and -(K+1) below, K above)
LoaderLabels(K) == (0..K) \cup {-1, -(K + 1)}

\* class_frequency: a list of counts, or a loader yielding (x, y) pairs
\* (represented by the labels y it yields)
ClassFrequencyArgs(K) ==
    {[loader |-> FALSE, items |-> s] :
        s \in SeqsUpTo(0..MaxFreq, MaxListLen) \ {<<>>}}
    \cup {[loader |-> TRUE, items |-> s] :
        s \in SeqsUpTo(LoaderLabels(K), MaxLoaderLen)}

(* ---------------------------- training data ---------------------------- *)
\* The model's output for an input: logits (k_1 .. k_K) * ln 2 whose softmax
\* is exact, K-2, .., 1, 0, 0.
Logits(K) == [i \in 1..K |-> IF i = K THEN 0 ELSE K - 1 - i]

\* The batches of a loader, each with the model's output y_hat and labels y.
Loader(K) ==
    << [y_hat |-> <<Logits(K)>>, y |-> <<0>>],
       [y_hat |-> <<Logits(K), Logits(K)>>, y |-> <<K - 1, 0>>] >>

(* ---------------------------- state ------------------------------------- *)
VARIABLES
    status,            \* "new", "constructed" or "failed" (__init__ raised)
    error,             \* the exception __init__ raised, "" when none
    args,              \* the arguments __init__ was called with
    num_classes, gamma, rule, beta_reweight, drw_epochs,   \* trainer attributes
    _class_frequency, _weight, _drw_weight,
    units,             \* every FocalLoss object created so far, oldest first
    focal_fn,          \* index in units of the object self.focal_fn refers to
    current_epoch,     \* the training loop's epoch counter
    pc,                \* the training loop's position
    batch_idx,         \* index of the next training batch of the epoch
    train_log,         \* one entry per training_step: epoch, batch, unit, loss
    val_loss, test_loss

vars == <<status, error, args, num_classes, gamma, rule, beta_reweight,
          drw_epochs, _class_frequency, _weight, _drw_weight, units, focal_fn,
          current_epoch, pc, batch_idx, train_log, val_loss, test_loss>>

trainerVars == <<num_classes, gamma, rule, beta_reweight, drw_epochs,
                 _class_frequency, _weight, _drw_weight, units, focal_fn>>
loopVars == <<current_epoch, pc, batch_idx, train_log, val_loss, test_loss>>

NoArgs == [num_classes |-> 0, class_frequency |-> [loader |-> FALSE, items |-> <<>>],
           gamma |-> 0, rule |-> "", beta_reweight |-> <<0, 1>>, drw_epochs |-> 0]

Init ==
    /\ status = "new" /\ error = "" /\ args = NoArgs
    /\ num_classes = 0 /\ gamma = 0 /\ rule = "" /\ beta_reweight = Fin(0, 1)
    /\ drw_epochs = 0
    /\ _class_frequency = <<>> /\ _weight = None /\ _drw_weight = None
    /\ units = <<>> /\ focal_fn = 0
    /\ current_epoch = 0 /\ pc = "none" /\ batch_idx = 0
    /\ train_log = <<>> /\ val_loss = None /\ test_loss = None

(* ---------------------------- FocalLossTrainer.__init__ ---------------- *)
\* assert y < self.num_classes
LabelAccepted(y, K) == y < K

\* variant: the counter is assigned instead of incremented
IncrementAssign(freq, y) ==
    LET i == IF y >= 0 THEN y + 1 ELSE Len(freq) + y + 1
    IN [freq EXCEPT ![i] = 1]

\* _class_frequency[y] += 1 on a Python list: negative y counts from the end
Increment(freq, y) ==
    LET i == IF y >= 0 THEN y + 1 ELSE Len(freq) + y + 1
    IN [freq EXCEPT ![i] = @ + 1]

IndexInList(freq, y) == -Len(freq) <= y /\ y < Len(freq)

\* for _, y in class_frequency: assert ...; _class_frequency[y] += 1
RECURSIVE CountLabels(_, _, _)
CountLabels(freq, labels, K) ==
    IF labels = <<>> THEN [err |-> "", freq |-> freq]
    ELSE LET y == Head(labels) IN
         IF ~LabelAccepted(y, K) THEN [err |-> "AssertionError: label", freq |-> freq]
         ELSE IF ~IndexInList(freq, y) THEN [err |-> "IndexError", freq |-> freq]
         ELSE CountLabels(Increment(freq, y), Tail(labels), K)

\* the isinstance(class_frequency, DataLoader) branch and its else
ClassFrequencyOf(class_frequency, K) ==
    IF class_frequency.loader
    THEN CountLabels([c \in 1..K |-> 0], class_frequency.items, K)
    ELSE [err |-> "", freq |-> class_frequency.items]

\* variant: the rule is not checked
RuleUnchecked(r) == TRUE

\* assert self.rule in ["none", "reweight", "drw"]
RuleSupported(r) == r \in {"none", "reweight", "drw"}

\* effective_num = 1.0 - np.power(beta, freq)
EffectiveNum(beta, freq) ==
    [c \in 1..Len(freq) |-> FSub(Fin(1, 1), FPow(beta, freq[c]))]

\* variant: the normalised weights are not scaled by num_classes
EffectiveNumberWeightsUnscaled(beta, freq, K) ==
    LET effective_num == EffectiveNum(beta, freq)
        raw == [c \in 1..Len(freq) |-> FDiv(FSub(Fin(1, 1), beta), effective_num[c])]
        total == FSum(raw)
    IN [c \in 1..Len(freq) |-> FDiv(raw[c], total)]

\* w = (1.0 - beta) / effective_num;  w = w / np.sum(w) * num_classes
EffectiveNumberWeights(beta, freq, K) ==
    LET effective_num == EffectiveNum(beta, freq)
        raw == [c \in 1..Len(freq) |-> FDiv(FSub(Fin(1, 1), beta), effective_num[c])]
        total == FSum(raw)
    IN [c \in 1..Len(freq) |-> FMul(FDiv(raw[c], total), FromInt(K))]

\* [1.0] * self.num_classes
UniformWeights(K) == [c \in 1..K |-> Fin(1, 1)]

Construct ==
    /\ status = "new"
    /\ \E K \in 1..MaxClasses, g \in Gammas, r \in RuleArgs, b \in Betas,
          d \in 0..MaxDrwEpochs :
       \E cf \in ClassFrequencyArgs(K) :
         LET counted == ClassFrequencyOf(cf, K)
             beta == Fin(b[1], b[2])
             failure == IF counted.err # "" THEN counted.err
                        ELSE IF ~RuleSupported(r) THEN "AssertionError: rule"
                        ELSE ""
             w == IF r = "none" THEN None
                  ELSE IF r = "reweight"
                       THEN Tensor(EffectiveNumberWeights(beta, counted.freq, K))
                  ELSE Tensor(UniformWeights(K))
             dw == IF r \in {"none", "reweight"} THEN None
                   ELSE Tensor(EffectiveNumberWeights(beta, counted.freq, K))
         IN /\ args' = [num_classes |-> K, class_frequency |-> cf, gamma |-> g,
                        rule |-> r, beta_reweight |-> b, drw_epochs |-> d]
            /\ IF failure # ""
               THEN /\ status' = "failed" /\ error' = failure
                    /\ UNCHANGED <<trainerVars, loopVars>>
               ELSE /\ status' = "constructed" /\ error' = ""
                    /\ num_classes' = K /\ gamma' = g /\ rule' = r
                    /\ beta_reweight' = beta /\ drw_epochs' = d
                    /\ _class_frequency' = counted.freq
                    /\ _weight' = w /\ _drw_weight' = dw
                    /\ units' = <<FocalLoss(g, w, "_weight")>>
                    /\ focal_fn' = 1
                    /\ pc' = "epoch_start"
                    /\ UNCHANGED <<current_epoch, batch_idx, train_log,
                                   val_loss, test_loss>>

(* ---------------------------- hooks ------------------------------------ *)
\* variant: the swap fires one epoch late
SwapDueLate(epoch) == epoch = drw_epochs + 1 /\ rule = "drw"

\* variant: the swap does not test the rule
SwapDueAnyRule(epoch) == epoch = drw_epochs

\* epoch == self.drw_epochs and self.rule == "drw"
SwapDue(epoch) == epoch = drw_epochs /\ rule = "drw"

\* variant: the weight buffer of the existing object is overwritten
ReplacedInPlace(us, unit) == [us EXCEPT ![Len(us)] = unit]

\* self.focal_fn = FocalLoss(...): a new object; the old one is left as it is
Replaced(us, unit) == Append(us, unit)

OnTrainEpochStart ==
    /\ status = "constructed" /\ pc = "epoch_start"
    /\ IF SwapDue(current_epoch)
       THEN /\ units' = Replaced(units, FocalLoss(gamma, _drw_weight, "_drw_weight"))
            /\ focal_fn' = Len(units')
       ELSE UNCHANGED <<units, focal_fn>>
    /\ pc' = "train" /\ batch_idx' = 0
    /\ UNCHANGED <<status, error, args, num_classes, gamma, rule, beta_reweight,
                   drw_epochs, _class_frequency, _weight, _drw_weight,
                   current_epoch, train_log, val_loss, test_loss>>

\* loss = self.focal_fn(y_hat, y)
StepLoss(batch) == Forward(units[focal_fn], batch.y_hat, batch.y)

TrainingStep ==
    /\ status = "constructed" /\ pc = "train"
    /\ batch_idx < Len(Loader(num_classes))
    /\ LET batch == Loader(num_classes)[batch_idx + 1]
       IN train_log' = Append(train_log,
              [epoch |-> current_epoch, batch_idx |-> batch_idx,
               unit |-> focal_fn, weight |-> units[focal_fn].weight,
               ref |-> units[focal_fn].ref, loss |-> StepLoss(batch)])
    /\ batch_idx' = batch_idx + 1
    /\ UNCHANGED <<status, error, args, trainerVars, current_epoch, pc,
                   val_loss, test_loss>>

ValidationStep ==
    /\ status = "constructed" /\ pc = "train"
    /\ batch_idx = Len(Loader(num_classes))
    /\ val_loss' = Tensor(<<StepLoss(Loader(num_classes)[1])>>)
    /\ pc' = "epoch_end"
    /\ UNCHANGED <<status, error, args, trainerVars, current_epoch, batch_idx,
                   train_log, test_loss>>

\* the training loop ends the epoch: the next one starts, or fit returns
EndEpoch ==
    /\ status = "constructed" /\ pc = "epoch_end"
    /\ IF current_epoch < MaxEpoch
       THEN current_epoch' = current_epoch + 1 /\ pc' = "epoch_start"
       ELSE current_epoch' = current_epoch /\ pc' = "fit_done"
    /\ UNCHANGED <<status, error, args, trainerVars, batch_idx, train_log,
                   val_loss, test_loss>>

TestStep ==
    /\ status = "constructed" /\ pc = "fit_done"
    /\ test_loss' = Tensor(<<StepLoss(Loader(num_classes)[1])>>)
    /\ pc' = "tested"
    /\ UNCHANGED <<status, error, args, trainerVars, current_epoch, batch_idx,
                   train_log, val_loss>>

Next ==
    \/ Construct
    \/ OnTrainEpochStart
    \/ TrainingStep
    \/ ValidationStep
    \/ EndEpoch
    \/ TestStep

Spec == Init /\ [][Next]_vars

(* ---------------------------- properties -------------------------------- *)
Constructed == status = "constructed"
Reweighting == rule \in {"reweight", "drw"}
LogIdx == 1..Len(train_log)
LoaderLabelsGiven == args.class_frequency.items
AllLabelsInRange ==
    \A i \in 1..Len(LoaderLabelsGiven) :
        0 <= LoaderLabelsGiven[i] /\ LoaderLabelsGiven[i] < args.num_classes
WeightOfEpoch(e) == IF e < drw_epochs THEN "_weight" ELSE "_drw_weight"

\* C1: under rule 'drw', with epochs started in order from 0, every training
\* step of an epoch e < drw_epochs runs with the uniform vector [1.0]*num_classes
\* in the active focal-loss unit and every training step of an epoch
\* e >= drw_epochs runs with the effective-number vector; after a step has used
\* the reweighted vector no later step uses the uniform one.
C1_DrwSchedule ==
    (Constructed /\ rule = "drw") =>
        /\ _weight = Tensor(UniformWeights(num_classes))
        /\ _drw_weight = Tensor(EffectiveNumberWeights(beta_reweight,
                                    _class_frequency, num_classes))
        /\ \A i \in LogIdx :
              /\ train_log[i].ref = WeightOfEpoch(train_log[i].epoch)
              /\ train_log[i].weight =
                    IF train_log[i].epoch < drw_epochs THEN _weight ELSE _drw_weight
        /\ \A i, j \in LogIdx :
              (i < j /\ train_log[i].ref = "_drw_weight")
                  => train_log[j].ref = "_drw_weight"
        /\ pc \in {"train", "epoch_end"} =>
              units[focal_fn].ref = WeightOfEpoch(current_epoch)

C1_Witness ==
    /\ Constructed /\ rule = "drw" /\ drw_epochs = 1
    /\ _drw_weight # _weight
    /\ \E i, j \in LogIdx :
          /\ train_log[i].epoch = 0 /\ train_log[i].weight = _weight
          /\ train_log[j].epoch = 2 /\ train_log[j].weight = _drw_weight

\* C2: with rule 'drw', drw_epochs = 2 and two classes of unequal frequency
\* whose reweighted vector differs from the uniform one, the loss of a training
\* step of epoch 1 differs from the loss of the training step of epoch 2 on the
\* same batch (the cross-entropy uses the active weight vector).
C2_LossFollowsWeight ==
    (/\ Constructed /\ rule = "drw" /\ drw_epochs = 2
     /\ num_classes = 2 /\ Len(_class_frequency) = 2
     /\ 1 <= _class_frequency[1] /\ _class_frequency[1] < _class_frequency[2]
     /\ _drw_weight # _weight)
    => \A i, j \in LogIdx :
          (/\ train_log[i].epoch = 1 /\ train_log[j].epoch = 2
           /\ train_log[i].batch_idx = train_log[j].batch_idx)
          => train_log[i].loss # train_log[j].loss

\* C3: a trainer with rule 'reweight' or 'drw' is never constructed from a
\* class frequency holding a zero count, and no constructed trainer holds a
\* non-finite weight.
C3_ZeroFrequencyRejected ==
    (Constructed /\ Reweighting) =>
        /\ \A c \in 1..Len(_class_frequency) : _class_frequency[c] # 0
        /\ \A c \in 1..Len(_weight.data) : IsFinite(_weight.data[c])
        /\ \A c \in 1..Len(_drw_weight.data) : IsFinite(_drw_weight.data[c])

\* C4: construction with a rule other than 'none', 'reweight', 'drw' fails and
\* never yields a trainer running one of the three rules; each of the three
\* rules passes the rule check (no rule error), and a constructed trainer
\* holds the rule it was given.
C4_RuleChecked ==
    status # "new" =>
        /\ args.rule \notin {"none", "reweight", "drw"} => status = "failed"
        /\ args.rule \in {"none", "reweight", "drw"} => error # "AssertionError: rule"
        /\ Constructed => rule = args.rule

C4_Witness ==
    /\ status = "failed" /\ error = "AssertionError: rule"
    /\ args.rule = "invalid" /\ units = <<>>

\* C5: when the class frequency is counted from a loader, a label outside
\* [0, num_classes), above or below, makes construction fail.
C5_OutOfRangeLabelRejected ==
    (status # "new" /\ args.class_frequency.loader /\ ~AllLabelsInRange)
        => status = "failed"

\* C6: counting a loader whose labels all lie in [0, num_classes) does not fail,
\* and yields a vector of length num_classes whose entry c is the number of
\* pairs labelled c (so the entries sum to the number of pairs).
C6_FrequencyCounts ==
    (status # "new" /\ args.class_frequency.loader /\ AllLabelsInRange) =>
        /\ error \notin {"AssertionError: label", "IndexError"}
        /\ Constructed =>
              /\ Len(_class_frequency) = num_classes
              /\ \A c \in 0..(num_classes - 1) :
                    _class_frequency[c + 1] =
                        Cardinality({i \in 1..Len(LoaderLabelsGiven) :
                                        LoaderLabelsGiven[i] = c})

C6_Witness ==
    /\ Constructed /\ args.class_frequency.loader
    /\ LoaderLabelsGiven = <<0, 1, 0>> /\ num_classes = 2
    /\ _class_frequency = <<2, 1>>

\* C7: every weight vector of a constructed trainer with rule 'reweight' or
\* 'drw' (the initial one, the drw terminal one, the active unit's) has length
\* num_classes, whatever the length of a class_frequency list (stated here for
\* frequencies without a zero count, where every weight is finite).
C7_WeightLength ==
    (/\ Constructed /\ Reweighting
     /\ \A c \in 1..Len(_class_frequency) : _class_frequency[c] >= 1) =>
        /\ Len(_weight.data) = num_classes
        /\ rule = "drw" => Len(_drw_weight.data) = num_classes
        /\ Len(units[focal_fn].weight.data) = num_classes

\* C8: with rule 'reweight' the active unit holds the effective-number vector
\* from construction on, with rule 'none' it holds no weight; under both rules
\* no step, on_train_epoch_start at epoch drw_epochs included, changes the
\* active unit or its weight.
C8_Active ==
    (Constructed /\ rule \in {"none", "reweight"}) =>
        /\ focal_fn = 1 /\ Len(units) = 1
        /\ units[focal_fn].weight = _weight
        /\ rule = "none" => _weight = None
        /\ rule = "reweight" =>
              _weight = Tensor(EffectiveNumberWeights(beta_reweight,
                                    _class_frequency, num_classes))
        /\ \A i \in LogIdx : train_log[i].unit = 1 /\ train_log[i].weight = _weight

C8_Frame ==
    (Constructed /\ rule \in {"none", "reweight"}) =>
        /\ focal_fn' = focal_fn /\ units' = units /\ _weight' = _weight

C8_StaticRules == [](C8_Active) /\ [][C8_Frame]_vars

C8_Witness ==
    /\ Constructed /\ rule = "reweight" /\ pc = "train"
    /\ current_epoch = drw_epochs /\ current_epoch > 0
    /\ _weight # Tensor(UniformWeights(num_classes))
    /\ train_log # <<>> /\ train_log[Len(train_log)].epoch = drw_epochs

\* C9: for rule 'reweight' and for the drw terminal vector, with every class
\* frequency >= 1, the weights sum to num_classes; when in addition there is
\* one frequency per class and all are equal, every weight is 1.
ReweightedVector == IF rule = "reweight" THEN _weight.data ELSE _drw_weight.data

C9_WeightsSum ==
    (/\ Constructed /\ Reweighting
     /\ \A c \in 1..Len(_class_frequency) : _class_frequency[c] >= 1) =>
        /\ FSum(ReweightedVector) = FromInt(num_classes)
        /\ (/\ Len(_class_frequency) = num_classes
            /\ \A c \in 1..Len(_class_frequency) :
                  _class_frequency[c] = _class_frequency[1])
           => \A c \in 1..Len(ReweightedVector) : ReweightedVector[c] = Fin(1, 1)

C9_Witness ==
    /\ Constructed /\ rule = "drw" /\ num_classes = 2
    /\ _class_frequency = <<1, 2>> /\ beta_reweight = Fin(1, 2)
    /\ _drw_weight.data = <<Fin(6, 5), Fin(4, 5)>>

\* C10: under rule 'drw' the active unit is replaced only by
\* on_train_epoch_start of epoch drw_epochs, before any training step of that
\* epoch; the replacement adds a new unit and leaves every existing unit as it
\* was; all training steps of one epoch use the same unit and weight; at most
\* one replacement happens in a run.
C10_SameWithinEpoch ==
    (Constructed /\ rule = "drw") =>
        /\ Len(units) <= 2
        /\ \A i, j \in LogIdx :
              train_log[i].epoch = train_log[j].epoch =>
                  /\ train_log[i].unit = train_log[j].unit
                  /\ train_log[i].weight = train_log[j].weight
        /\ \A i \in LogIdx :
              train_log[i].weight = units[train_log[i].unit].weight

C10_Swap ==
    (Constructed /\ rule = "drw") =>
        /\ \A u \in 1..Len(units) : Len(units') >= u /\ units'[u] = units[u]
        /\ (focal_fn' # focal_fn \/ units' # units) =>
              /\ pc = "epoch_start" /\ current_epoch = drw_epochs
              /\ pc' = "train" /\ batch_idx' = 0
              /\ \A i \in LogIdx : train_log[i].epoch < current_epoch
              /\ Len(units') = Len(units) + 1 /\ focal_fn' = Len(units')
              /\ focal_fn' # focal_fn

C10_AtomicSwap == [](C10_SameWithinEpoch) /\ [][C10_Swap]_vars

C10_Witness ==
    /\ Constructed /\ rule = "drw" /\ drw_epochs = 1 /\ Len(units) = 2
    /\ units[1].weight # units[2].weight
    /\ \E i, j, k \in LogIdx :
          /\ i # j
          /\ train_log[i].epoch = 1 /\ train_log[j].epoch = 1
          /\ train_log[i].unit = 2 /\ train_log[j].unit = 2
          /\ train_log[k].epoch = 0 /\ train_log[k].unit = 1

====
